---- MODULE Spec2Model ----
(***************************************************************************)
(* Model of the stats overlay (overlay_fixed_complete_final.py): the pane  *)
(* switching of OverlayWindow (toggle_tab, show_live_from_tab,             *)
(* open_settings), the settings handlers, StatRow.update_value and the     *)
(* telemetry tick update_stats.                                            *)
(***************************************************************************)
EXTENDS Integers, Sequences, FiniteSets, TLC

VARIABLES
    tab_info,        \* tab_info.isChecked()
    tab_about,       \* tab_about.isChecked()
    btn_settings,    \* btn_settings.isChecked()
    home_btn,        \* home_btn visibility flag
    live_area,       \* live_area visibility flag
    info_area,       \* info_area visibility flag
    about_area,      \* about_area visibility flag
    settings_area,   \* the lazily created settings pane: [exists, id, visible]
    created,         \* number of settings panes constructed so far
    theme,           \* self.theme
    size_preset,     \* self.size_preset
    opacity,         \* windowOpacity() in percent
    rb_light,        \* settings_widget.rb_light.isChecked()
    last,            \* history: the handler that ran last and the panes shown before it
    NVML,            \* module global: pynvml imported and nvmlInit() succeeded
    GPUtil_available,\* module global: GPUtil imported
    batt_label,      \* text of the battery label
    row_cpu,         \* the StatRows of the live pane
    row_ram,
    row_disk,
    row_net,
    gpu_rows,        \* list of (name, StatRow) built by detect_gpus_and_populate
    previous_net,    \* None, or the interface sample stored by the last selecting tick
    enumerated,      \* history: what the GPU backends answered at start-up
    sample,          \* history: what the OS answered in the last telemetry tick
    prev_before,     \* history: previous_net as the last telemetry tick found it
    queried,         \* history: the GPU backends detect_gpus_and_populate called
    failed_before,   \* history: a query of the telemetry tick before the last one failed
    probe,           \* a StatRow of its own and the last value handed to its update_value
    time_label       \* text of the clock label: the second update_clock last read

viewVars == <<tab_info, tab_about, btn_settings, home_btn, live_area, info_area,
              about_area, settings_area, created, theme, size_preset, opacity,
              rb_light, last>>

telVars == <<NVML, GPUtil_available, batt_label, row_cpu, row_ram, row_disk, row_net,
             gpu_rows, previous_net, enumerated, sample, prev_before, queried,
             failed_before>>

vars == <<viewVars, telVars, probe, time_label>>

(***************************************************************************)
(* Bounds and program constants                                            *)
(***************************************************************************)
\* number of slider positions tried besides the two ends of the slider
MaxTransLevels == 2
\* largest number of devices a GPU backend reports
MaxGpus == 2
\* byte counters grow by at most MaxUnits units of 0.75 MiB, or jump to BurstUnits
MaxUnits == 2
BurstUnits == 150
\* update_value is tried up to MaxOver below 0 and above 100
MaxOver == 5
\* the clock is read in half seconds, MaxTime of them at most
MaxTime == 2

SliderMin == 30
SliderMax == 100
DefaultOpacity == 92

TransLevels == {SliderMin, SliderMax} \cup {SliderMin + 20 * k : k \in 1..MaxTransLevels}

Sizes == {"small", "medium", "large"}

(***************************************************************************)
(* Python values: numbers are exact fractions n/d (d > 0); the other       *)
(* values a caller can hand to int() are None, text, nan and infinity      *)
(***************************************************************************)
RECURSIVE GCD(_, _)
GCD(a, b) == IF b = 0 THEN a ELSE GCD(b, a % b)

Abs(a) == IF a < 0 THEN -a ELSE a
Min(a, b) == IF a <= b THEN a ELSE b
Max(a, b) == IF a >= b THEN a ELSE b

\* the fraction n/d in lowest terms
Num(n, d) ==
    LET g == GCD(Abs(n), d)
    IN [t |-> "num", n |-> n \div g, d |-> d \div g]

PyInt(i) == Num(i, 1)
PyNone == [t |-> "none", n |-> 0, d |-> 1]
PyText == [t |-> "text", n |-> 0, d |-> 1]        \* text that is no integer literal, "n/a"
PyDigits(i) == [t |-> "digits", n |-> i, d |-> 1]  \* text that is an integer literal, "42"
PyNaN == [t |-> "nan", n |-> 0, d |-> 1]
PyInf == [t |-> "inf", n |-> 1, d |-> 1]

\* a - b, a + b over the common denominator
RSub(a, b) ==
    LET l == (a.d \div GCD(a.d, b.d)) * b.d
    IN Num(a.n * (l \div a.d) - b.n * (l \div b.d), l)

RAdd(a, b) ==
    LET l == (a.d \div GCD(a.d, b.d)) * b.d
    IN Num(a.n * (l \div a.d) + b.n * (l \div b.d), l)

\* a * b, cancelling across before multiplying
RMul(a, b) ==
    LET g1 == GCD(Abs(a.n), b.d)
        g2 == GCD(Abs(b.n), a.d)
    IN Num((a.n \div g1) * (b.n \div g2), (a.d \div g2) * (b.d \div g1))

\* a / b for b # 0
RDiv(a, b) ==
    RMul(a, IF b.n > 0 THEN [t |-> "num", n |-> b.d, d |-> b.n]
            ELSE [t |-> "num", n |-> -b.d, d |-> -b.n])

RLeq0(a) == a.n <= 0

\* int(x): truncation toward zero of a number, the value of an integer literal,
\* and an exception (ok = FALSE) for None, other text, nan and infinity
int(x) ==
    CASE x.t = "num" ->
            [ok |-> TRUE, v |-> IF x.n >= 0 THEN x.n \div x.d ELSE -((-x.n) \div x.d)]
      [] x.t = "digits" -> [ok |-> TRUE, v |-> x.n]
      [] OTHER -> [ok |-> FALSE, v |-> 0]

(***************************************************************************)
(* StatRow                                                                 *)
(***************************************************************************)
BarMinimum == 0
BarMaximum == 100

\* StatRow.__init__: the bar has range 0..100 and no value yet, the text is "0%"
StatRow(label_text) ==
    [label |-> label_text, bar |-> BarMinimum - 1, value_label |-> <<0, "%">>]

\* QProgressBar.setValue: a value outside the range leaves the bar as it is
setValue(bar, v) == IF v >= BarMinimum /\ v <= BarMaximum THEN v ELSE bar

\* mutant of update_value: the upper clamp is missing
update_value_unclamped(row, percent) ==
    LET pc == IF percent.t = "none" THEN PyInt(0) ELSE percent
        r == int(pc)
        p == IF r.ok THEN Max(0, r.v) ELSE 0
    IN [row EXCEPT !.bar = setValue(row.bar, p), !.value_label = <<p, "%">>]

update_value(row, percent) ==
    LET pc == IF percent.t = "none" THEN PyInt(0) ELSE percent
        r == int(pc)
        p == IF r.ok THEN Max(0, Min(100, r.v)) ELSE 0
    IN [row EXCEPT !.bar = setValue(row.bar, p), !.value_label = <<p, "%">>]

(***************************************************************************)
(* The panes                                                               *)
(***************************************************************************)
NoSettingsArea == [exists |-> FALSE, id |-> 0, visible |-> FALSE]

\* the panes whose visibility flag is set
VisiblePanes ==
    (IF live_area THEN {"Live"} ELSE {})
    \cup (IF info_area THEN {"Info"} ELSE {})
    \cup (IF about_area THEN {"About"} ELSE {})
    \cup (IF settings_area.exists /\ settings_area.visible THEN {"Settings"} ELSE {})

\* settings_area.setVisible(v), guarded by hasattr at the call sites
settings_setVisible(sa, v) == [sa EXCEPT !.visible = v]

Record(op) == [op |-> op, before |-> VisiblePanes]

InitView ==
    /\ tab_info = FALSE
    /\ tab_about = FALSE
    /\ btn_settings = FALSE
    /\ home_btn = FALSE
    /\ live_area = TRUE
    /\ info_area = FALSE
    /\ about_area = FALSE
    /\ settings_area = NoSettingsArea
    /\ created = 0
    /\ theme = "dark"
    /\ size_preset = "small"
    /\ opacity = DefaultOpacity
    /\ rb_light = FALSE
    /\ last = [op |-> "init", before |-> {}]

(***************************************************************************)
(* Tab toggling                                                            *)
(***************************************************************************)
\* "if hasattr(self, 'settings_area'): self.settings_area.setVisible(False)"; mutant: the pane is left as it is
hide_settings_area_forgotten(sa) == sa

\* "if hasattr(self, 'settings_area'): self.settings_area.setVisible(False)"
hide_settings_area(sa) ==
    IF sa.exists THEN settings_setVisible(sa, FALSE) ELSE sa

\* mutant of click: the button stays checked
click_sticky(checked) == TRUE

\* a click on a checkable button flips its checked state before clicked() is emitted
click(checked) == ~checked

\* mutant of toggle_tab: unchecking a tab leaves the Home button visible
toggle_tab_home_forgotten(which, ti, ta) ==
    /\ IF which = "info"
       THEN IF ti
            THEN /\ tab_info' = ti
                 /\ tab_about' = FALSE
                 /\ home_btn' = TRUE
                 /\ info_area' = TRUE
                 /\ about_area' = FALSE
                 /\ live_area' = FALSE
                 /\ settings_area' = hide_settings_area(settings_area)
            ELSE /\ tab_info' = ti
                 /\ tab_about' = ta
                 /\ info_area' = FALSE
                 /\ live_area' = TRUE
                 /\ UNCHANGED <<home_btn, about_area, settings_area>>
       ELSE IF ta
            THEN /\ tab_about' = ta
                 /\ tab_info' = FALSE
                 /\ home_btn' = TRUE
                 /\ about_area' = TRUE
                 /\ info_area' = FALSE
                 /\ live_area' = FALSE
                 /\ settings_area' = hide_settings_area(settings_area)
            ELSE /\ tab_about' = ta
                 /\ tab_info' = ti
                 /\ about_area' = FALSE
                 /\ live_area' = TRUE
                 /\ UNCHANGED <<home_btn, info_area, settings_area>>
    /\ UNCHANGED <<btn_settings, created, theme, size_preset, opacity, rb_light>>

\* toggle_tab(which); ti and ta are the checked states the handler reads
toggle_tab(which, ti, ta) ==
    /\ IF which = "info"
       THEN IF ti
            THEN /\ tab_info' = ti
                 /\ tab_about' = FALSE
                 /\ home_btn' = TRUE
                 /\ info_area' = TRUE
                 /\ about_area' = FALSE
                 /\ live_area' = FALSE
                 /\ settings_area' = hide_settings_area(settings_area)
            ELSE /\ tab_info' = ti
                 /\ tab_about' = ta
                 /\ info_area' = FALSE
                 /\ live_area' = TRUE
                 /\ home_btn' = FALSE
                 /\ UNCHANGED <<about_area, settings_area>>
       ELSE IF ta
            THEN /\ tab_about' = ta
                 /\ tab_info' = FALSE
                 /\ home_btn' = TRUE
                 /\ about_area' = TRUE
                 /\ info_area' = FALSE
                 /\ live_area' = FALSE
                 /\ settings_area' = hide_settings_area(settings_area)
            ELSE /\ tab_about' = ta
                 /\ tab_info' = ti
                 /\ about_area' = FALSE
                 /\ live_area' = TRUE
                 /\ home_btn' = FALSE
                 /\ UNCHANGED <<info_area, settings_area>>
    /\ UNCHANGED <<btn_settings, created, theme, size_preset, opacity, rb_light>>

\* mutant of show_live_from_tab: the tabs keep their checked state
show_live_keeps_tabs ==
    /\ home_btn' = FALSE
    /\ info_area' = FALSE
    /\ about_area' = FALSE
    /\ live_area' = TRUE
    /\ settings_area' = hide_settings_area(settings_area)
    /\ UNCHANGED <<tab_info, tab_about, btn_settings, created, theme, size_preset, opacity,
                   rb_light>>

show_live_from_tab ==
    /\ tab_info' = FALSE
    /\ tab_about' = FALSE
    /\ home_btn' = FALSE
    /\ info_area' = FALSE
    /\ about_area' = FALSE
    /\ live_area' = TRUE
    /\ settings_area' = hide_settings_area(settings_area)
    /\ UNCHANGED <<btn_settings, created, theme, size_preset, opacity, rb_light>>

\* mutant of settings_area_opened: a new pane on every activation
settings_area_always_new(sa, n) == [exists |-> TRUE, id |-> n + 1, visible |-> TRUE]

\* the lazy creation in open_settings: the pane after "if not hasattr(...)" and setVisible(True)
settings_area_opened(sa, n) ==
    IF ~sa.exists
    THEN [exists |-> TRUE, id |-> n + 1, visible |-> TRUE]
    ELSE settings_setVisible(sa, TRUE)

\* mutant of open_settings: the Info and About panes are not hidden
open_settings_keeps_panes(bs) ==
    /\ btn_settings' = bs
    /\ tab_info' = FALSE
    /\ tab_about' = FALSE
    /\ home_btn' = TRUE
    /\ live_area' = FALSE
    /\ settings_area' = settings_area_opened(settings_area, created)
    /\ created' = IF settings_area'.id = settings_area.id THEN created ELSE created + 1
    /\ rb_light' = IF settings_area'.id = settings_area.id THEN rb_light ELSE (theme = "light")
    /\ UNCHANGED <<info_area, about_area, theme, size_preset, opacity>>

\* mutant of open_settings: a click while the pane is shown returns to Live
open_settings_toggles(bs) ==
    /\ btn_settings' = bs
    /\ tab_info' = FALSE
    /\ tab_about' = FALSE
    /\ info_area' = FALSE
    /\ about_area' = FALSE
    /\ IF settings_area.exists /\ settings_area.visible
       THEN /\ home_btn' = FALSE
            /\ live_area' = TRUE
            /\ settings_area' = settings_setVisible(settings_area, FALSE)
       ELSE /\ home_btn' = TRUE
            /\ live_area' = FALSE
            /\ settings_area' = settings_area_opened(settings_area, created)
    /\ created' = IF settings_area'.id = settings_area.id THEN created ELSE created + 1
    /\ rb_light' = IF settings_area'.id = settings_area.id THEN rb_light ELSE (theme = "light")
    /\ UNCHANGED <<theme, size_preset, opacity>>

\* open_settings(); bs is the checked state of btn_settings after the click
open_settings(bs) ==
    /\ btn_settings' = bs
    /\ tab_info' = FALSE
    /\ tab_about' = FALSE
    /\ home_btn' = TRUE
    /\ live_area' = FALSE
    /\ info_area' = FALSE
    /\ about_area' = FALSE
    /\ settings_area' = settings_area_opened(settings_area, created)
    /\ created' = IF settings_area'.id = settings_area.id THEN created ELSE created + 1
    \* SettingsDialog.init_ui checks the radio button of the parent's theme
    /\ rb_light' = IF settings_area'.id = settings_area.id THEN rb_light ELSE (theme = "light")
    /\ UNCHANGED <<theme, size_preset, opacity>>

(***************************************************************************)
(* Theme / size / transparency                                             *)
(***************************************************************************)
apply_theme(t) == theme' = t

apply_size_preset(preset) == size_preset' = preset

\* rb_dark.toggled: the user picked the radio button that was not checked
on_theme_changed ==
    /\ rb_light' = ~rb_light
    /\ apply_theme(IF rb_light' THEN "light" ELSE "dark")
    /\ UNCHANGED <<tab_info, tab_about, btn_settings, home_btn, live_area, info_area,
                   about_area, settings_area, created, size_preset, opacity>>

on_size_selected(size) ==
    /\ apply_size_preset(size)
    /\ UNCHANGED <<tab_info, tab_about, btn_settings, home_btn, live_area, info_area,
                   about_area, settings_area, created, theme, opacity, rb_light>>

on_trans_changed(val) ==
    /\ opacity' = val
    /\ UNCHANGED <<tab_info, tab_about, btn_settings, home_btn, live_area, info_area,
                   about_area, settings_area, created, theme, size_preset, rb_light>>

(***************************************************************************)
(* User input: the signal connections of build_ui and SettingsDialog       *)
(***************************************************************************)
\* the settings widget can be operated while its pane is shown
SettingsShown == settings_area.exists /\ settings_area.visible

ClickInfo ==
    /\ toggle_tab("info", click(tab_info), tab_about)
    /\ last' = Record("tab_info")
    /\ UNCHANGED <<telVars, probe, time_label>>

ClickAbout ==
    /\ toggle_tab("about", tab_info, click(tab_about))
    /\ last' = Record("tab_about")
    /\ UNCHANGED <<telVars, probe, time_label>>

ClickSettings ==
    /\ open_settings(click(btn_settings))
    /\ last' = Record("btn_settings")
    /\ UNCHANGED <<telVars, probe, time_label>>

ClickHome ==
    /\ home_btn
    /\ show_live_from_tab
    /\ last' = Record("home_btn")
    /\ UNCHANGED <<telVars, probe, time_label>>

PickTheme ==
    /\ SettingsShown
    /\ on_theme_changed
    /\ last' = Record("theme")
    /\ UNCHANGED <<telVars, probe, time_label>>

PickSize ==
    /\ SettingsShown
    /\ \E size \in Sizes : on_size_selected(size)
    /\ last' = Record("size")
    /\ UNCHANGED <<telVars, probe, time_label>>

MoveSlider ==
    /\ SettingsShown
    /\ \E val \in TransLevels : val # opacity /\ on_trans_changed(val)
    /\ last' = Record("trans")
    /\ UNCHANGED <<telVars, probe, time_label>>

NextView ==
    \/ ClickInfo
    \/ ClickAbout
    \/ ClickSettings
    \/ ClickHome
    \/ PickTheme
    \/ PickSize
    \/ MoveSlider

(***************************************************************************)
(* GPU detection                                                           *)
(***************************************************************************)
\* an enumeration answer: ok = FALSE when a call of the backend raised
EnumFailed == [ok |-> FALSE, names |-> <<>>]
EnumNames(backend, k) == [ok |-> TRUE, names |-> [i \in 1..k |-> <<backend, i>>]]

\* mutant of detected_names: GPUtil is asked whatever pynvml found
detected_names_appended(nvml, gputil_available, nv, gu) ==
    LET gpu_names == IF nvml /\ nv.ok THEN nv.names ELSE <<>>
    IN IF gputil_available
       THEN IF gu.ok THEN gpu_names \o gu.names ELSE <<>>
       ELSE gpu_names

\* the names and count detect_gpus_and_populate ends with: pynvml first, then GPUtil
detected_names(nvml, gputil_available, nv, gu) ==
    LET gpu_names == IF nvml /\ nv.ok THEN nv.names ELSE <<>>
    IN IF gpu_names = <<>> /\ gputil_available
       THEN IF gu.ok THEN gu.names ELSE <<>>
       ELSE gpu_names

\* the backends detect_gpus_and_populate calls: pynvml "if NVML", GPUtil
\* "if not gpu_names and GPUtil_available"
detect_queries(nvml, gputil_available, nv) ==
    (IF nvml THEN {"nvml"} ELSE {})
    \cup (IF (~nvml \/ ~nv.ok \/ nv.names = <<>>) /\ gputil_available THEN {"gputil"} ELSE {})

detect_gpus_and_populate(nvml, gputil_available, nv, gu) ==
    LET gpu_names == detected_names(nvml, gputil_available, nv, gu)
        gpu_count == Len(gpu_names)
    IN IF gpu_count = 0
       THEN << [name |-> <<"GPU">>, row |-> StatRow(<<"GPU">>)] >>
       ELSE [i \in 1..gpu_count |->
                [name |-> gpu_names[i], row |-> StatRow(<<"GPU", i - 1, gpu_names[i]>>)]]

(***************************************************************************)
(* Battery                                                                 *)
(***************************************************************************)
BattLabel(text, symbol, percent, status) ==
    [text |-> text, symbol |-> symbol, percent |-> percent, status |-> status]

\* mutant of update_battery: no battery is shown as a reading of 0%
update_battery_absent_as_zero(b) ==
    IF b.t = "raise" THEN BattLabel("Battery: --", "", 0, "")
    ELSE IF b.t = "none" THEN BattLabel("reading", "battery", 0, "On Battery")
    ELSE LET percent == int(b.percent)
         IN IF ~percent.ok THEN BattLabel("Battery: --", "", 0, "")
            ELSE IF b.plugged = "true"
                 THEN BattLabel("reading", "plug", percent.v, "Charging")
                 ELSE BattLabel("reading", "battery", percent.v, "On Battery")

\* b is the answer of psutil.sensors_battery(): raised, None, or a reading
update_battery(b) ==
    IF b.t = "raise" THEN BattLabel("Battery: --", "", 0, "")
    ELSE IF b.t = "none" THEN BattLabel("No battery", "", 0, "")
    ELSE LET percent == int(b.percent)
         IN IF ~percent.ok THEN BattLabel("Battery: --", "", 0, "")
            ELSE IF b.plugged = "true"
                 THEN BattLabel("reading", "plug", percent.v, "Charging")
                 ELSE BattLabel("reading", "battery", percent.v, "On Battery")

(***************************************************************************)
(* Per-tick GPU sampling                                                   *)
(***************************************************************************)
set_row(rows, i, percent) == [rows EXCEPT ![i].row = update_value(rows[i].row, percent)]

all_rows_zero(rows) == [i \in 1..Len(rows) |-> [rows[i] EXCEPT !.row = update_value(rows[i].row, PyInt(0))]]

\* the loop of _update_gpus_gputil from position i; load * 100 of a nan raises
RECURSIVE gputil_loop(_, _, _)
gputil_loop(rows, gu, i) ==
    IF i > Len(rows) THEN [ok |-> TRUE, rows |-> rows]
    ELSE IF i <= Len(gu.load)
         THEN LET load == IF gu.load[i].t = "num"
                          THEN int(RMul(gu.load[i], PyInt(100)))
                          ELSE int(gu.load[i])
              IN IF load.ok
                 THEN gputil_loop(set_row(rows, i, PyInt(load.v)), gu, i + 1)
                 ELSE [ok |-> FALSE, rows |-> rows]
         ELSE gputil_loop(set_row(rows, i, PyInt(0)), gu, i + 1)

\* mutant of _update_gpus_gputil: "except Exception: pass"
_update_gpus_gputil_silent(rows, gputil_available, gu) ==
    IF gputil_available
    THEN IF gu.ok
         THEN LET r == gputil_loop(rows, gu, 1)
              IN IF r.ok THEN r.rows ELSE r.rows
         ELSE rows
    ELSE all_rows_zero(rows)

_update_gpus_gputil(rows, gputil_available, gu) ==
    IF gputil_available
    THEN IF gu.ok
         THEN LET r == gputil_loop(rows, gu, 1)
              IN IF r.ok THEN r.rows ELSE all_rows_zero(r.rows)
         ELSE all_rows_zero(rows)
    ELSE all_rows_zero(rows)

\* mutant of nvml_loop: "range(count)" for "range(max(len(self.gpu_rows), count))"
RECURSIVE nvml_loop_short(_, _, _)
nvml_loop_short(rows, nv, i) ==
    LET count == Len(nv.util)
    IN IF i > count THEN [ok |-> TRUE, rows |-> rows]
       ELSE IF i <= Len(rows)
            THEN IF nv.util[i].ok
                 THEN nvml_loop_short(set_row(rows, i, nv.util[i].v), nv, i + 1)
                 ELSE [ok |-> FALSE, rows |-> rows]
            ELSE nvml_loop_short(rows, nv, i + 1)

\* the pynvml loop of update_stats from position i; a failing device query raises
RECURSIVE nvml_loop(_, _, _)
nvml_loop(rows, nv, i) ==
    LET count == Len(nv.util)
    IN IF i > Max(Len(rows), count) THEN [ok |-> TRUE, rows |-> rows]
       ELSE IF i <= count /\ i <= Len(rows)
            THEN IF nv.util[i].ok
                 THEN nvml_loop(set_row(rows, i, nv.util[i].v), nv, i + 1)
                 ELSE [ok |-> FALSE, rows |-> rows]
            ELSE IF i <= Len(rows)
                 THEN nvml_loop(set_row(rows, i, PyInt(0)), nv, i + 1)
                 ELSE nvml_loop(rows, nv, i + 1)

update_gpus(rows, nvml, gputil_available, nv, gu) ==
    IF nvml
    THEN IF nv.count_ok
         THEN LET r == nvml_loop(rows, nv, 1)
              IN IF r.ok THEN r.rows ELSE _update_gpus_gputil(r.rows, gputil_available, gu)
         ELSE _update_gpus_gputil(rows, gputil_available, gu)
    ELSE _update_gpus_gputil(rows, gputil_available, gu)

(***************************************************************************)
(* Network rate                                                            *)
(***************************************************************************)
\* self.previous_net = None
NoNet == [set |-> FALSE, name |-> "", sent |-> 0, recv |-> 0, time |-> PyInt(0)]

\* the selection loop of update_stats over pernic.items() from position i:
\* the position of the first interface with the largest positive total, 0 for none
RECURSIVE top_nic(_, _, _, _)
top_nic(pernic, i, top_total, top) ==
    IF i > Len(pernic) THEN top
    ELSE LET total == pernic[i].bytes_sent + pernic[i].bytes_recv
         IN IF total > top_total
            THEN top_nic(pernic, i + 1, total, i)
            ELSE top_nic(pernic, i + 1, top_total, top)

\* mutant of same_nic: the stored name is not compared
same_nic_unnamed(prev, nic_name) == prev.set

\* "self.previous_net and self.previous_net.get('name') == nic_name"
same_nic(prev, nic_name) == prev.set /\ prev.name = nic_name

\* mutant of elapsed: "dt < 0" for "dt <= 0"
elapsed_zero_kept(now, before) ==
    LET dt == RSub(now, before)
    IN IF dt.n < 0 THEN PyInt(1) ELSE dt

\* dt = now - previous time, replaced by 1.0 when it is not positive
elapsed(now, before) ==
    LET dt == RSub(now, before)
    IN IF RLeq0(dt) THEN PyInt(1) ELSE dt

\* round(x) of Python: to the nearest integer, a tie to the even one
round(x) ==
    LET q == x.n \div x.d
        r == x.n % x.d
    IN IF 2 * r > x.d \/ (2 * r = x.d /\ q % 2 = 1) THEN q + 1 ELSE q

\* mutant of net_pct: round() for int()
net_pct_rounded(prev, curr, dt) ==
    IF dt.n = 0 THEN [ok |-> FALSE, v |-> 0]
    ELSE LET sent_delta == RDiv(PyInt(curr.bytes_sent - prev.sent), dt)
             recv_delta == RDiv(PyInt(curr.bytes_recv - prev.recv), dt)
             kbps == RDiv(RAdd(sent_delta, recv_delta), PyInt(1024))
         IN [ok |-> TRUE, v |-> Min(100, round(RMul(RDiv(kbps, PyInt(102400)), PyInt(100))))]

\* pct of update_stats; ok = FALSE when the division raises.  The fractions are
\* exact where the code computes in double precision: int() of the double is the
\* integer part of the exact value except where the exact value is an integer the
\* double falls just below (29, 57 and 58 percent show as 28, 56 and 57).  The
\* byte counts and times drawn below (CounterPairs, Times) keep clear of those.
net_pct(prev, curr, dt) ==
    IF dt.n = 0 THEN [ok |-> FALSE, v |-> 0]
    ELSE LET sent_delta == RDiv(PyInt(curr.bytes_sent - prev.sent), dt)
             recv_delta == RDiv(PyInt(curr.bytes_recv - prev.recv), dt)
             kbps == RDiv(RAdd(sent_delta, recv_delta), PyInt(1024))
             scaled == int(RMul(RDiv(kbps, PyInt(102400)), PyInt(100)))
         IN [ok |-> TRUE, v |-> Min(100, scaled.v)]

\* mutant of network: a tick that selects no interface forgets the stored sample
network_forgets(row, prev, net, now) ==
    LET failed == [row |-> update_value(row, PyInt(0)), prev |-> prev]
        top == IF net.ok THEN top_nic(net.pernic, 1, 0, 0) ELSE 0
    IN IF ~net.ok THEN failed
       ELSE IF top = 0 THEN [row |-> update_value(row, PyInt(0)), prev |-> NoNet]
       ELSE LET curr == net.pernic[top]
                stored == [set |-> TRUE, name |-> curr.nic, sent |-> curr.bytes_sent,
                           recv |-> curr.bytes_recv, time |-> now]
            IN IF same_nic(prev, curr.nic)
               THEN LET pct == net_pct(prev, curr, elapsed(now, prev.time))
                    IN IF pct.ok
                       THEN [row |-> update_value([row EXCEPT !.label = <<"NETWORK", curr.nic>>],
                                                  PyInt(pct.v)),
                             prev |-> stored]
                       ELSE failed
               ELSE [row |-> update_value(row, PyInt(0)), prev |-> stored]

\* the network block of update_stats: the row and previous_net it leaves
network(row, prev, net, now) ==
    LET failed == [row |-> update_value(row, PyInt(0)), prev |-> prev]
        top == IF net.ok THEN top_nic(net.pernic, 1, 0, 0) ELSE 0
    IN IF ~net.ok \/ top = 0 THEN failed
       ELSE LET curr == net.pernic[top]
                stored == [set |-> TRUE, name |-> curr.nic, sent |-> curr.bytes_sent,
                           recv |-> curr.bytes_recv, time |-> now]
            IN IF same_nic(prev, curr.nic)
               THEN LET pct == net_pct(prev, curr, elapsed(now, prev.time))
                    IN IF pct.ok
                       THEN [row |-> update_value([row EXCEPT !.label = <<"NETWORK", curr.nic>>],
                                                  PyInt(pct.v)),
                             prev |-> stored]
                       ELSE failed
               ELSE [row |-> update_value(row, PyInt(0)), prev |-> stored]

(***************************************************************************)
(* The telemetry tick                                                      *)
(***************************************************************************)
\* a psutil percentage, or 0.0 when the query raised
reading(r) == IF r.ok THEN r.v ELSE PyInt(0)

\* a try block of the tick s ended in its except branch (no tick has run: FALSE)
any_failed(s) ==
    /\ s.now.n >= 0
    /\ \/ s.batt.t = "raise"
       \/ s.batt.t = "reading" /\ ~int(s.batt.percent).ok
       \/ ~s.cpu.ok \/ ~s.ram.ok \/ ~s.disk.ok \/ ~s.net.ok
       \/ ~s.nv.count_ok /\ ~s.gu.ok

\* update_stats(); s holds what the OS answers during this tick
update_stats(s) ==
    /\ batt_label' = update_battery(s.batt)
    /\ row_cpu' = update_value(row_cpu, reading(s.cpu))
    /\ row_ram' = update_value(row_ram, reading(s.ram))
    /\ row_disk' = update_value(row_disk, reading(s.disk))
    /\ gpu_rows' = update_gpus(gpu_rows, NVML, GPUtil_available, s.nv, s.gu)
    /\ LET r == network(row_net, previous_net, s.net, s.now)
       IN /\ row_net' = r.row
          /\ previous_net' = r.prev
    /\ sample' = s
    /\ prev_before' = previous_net
    /\ failed_before' = any_failed(sample)
    /\ UNCHANGED <<NVML, GPUtil_available, enumerated, queried>>

(***************************************************************************)
(* What the OS can answer, within the bounds                               *)
(***************************************************************************)
\* byte counters are multiples of 0.75 MiB
ByteUnit == 3 * 262144

\* time.time(): a multiple of half a second
Times == {Num(k, 2) : k \in 0..MaxTime}

\* (sent, received) counters of one interface, in ByteUnit
CounterPairs ==
    {c \in (0..MaxUnits) \X (0..MaxUnits) : c[1] + c[2] <= MaxUnits} \cup {<<BurstUnits, 0>>}

Counters(nic, c) == [nic |-> nic, bytes_sent |-> c[1] * ByteUnit, bytes_recv |-> c[2] * ByteUnit]

NetFailed == [ok |-> FALSE, pernic |-> <<>>]

\* the second interface is idle or ahead of every steady count of the first
WlanPairs == {<<0, 0>>, <<1, 1>>}

NetAnswers ==
    {NetFailed} \cup
    {[ok |-> TRUE, pernic |-> <<Counters("eth0", a), Counters("wlan0", b)>>] :
        a \in CounterPairs, b \in WlanPairs}

Reading(v) == [ok |-> TRUE, v |-> v]
QueryFailed == [ok |-> FALSE, v |-> PyInt(0)]

NoBatteryAnswer == [t |-> "none", percent |-> PyInt(0), plugged |-> "none"]
NvmlSilent == [count_ok |-> FALSE, util |-> <<>>]
GputilSilent == [ok |-> FALSE, load |-> <<>>]

\* a tick in which every sensor but the network gives one plain answer
NetSamples ==
    {[batt |-> NoBatteryAnswer, cpu |-> Reading(Num(578, 10)), ram |-> Reading(PyInt(102)),
      disk |-> QueryFailed, nv |-> NvmlSilent, gu |-> GputilSilent, net |-> n, now |-> t] :
        n \in NetAnswers, t \in Times}

NoSample ==
    [batt |-> NoBatteryAnswer, cpu |-> QueryFailed, ram |-> QueryFailed, disk |-> QueryFailed,
     nv |-> NvmlSilent, gu |-> GputilSilent, net |-> NetFailed, now |-> PyInt(-1)]

(***************************************************************************)
(* Start-up                                                                *)
(***************************************************************************)
\* what a backend enumerates at start-up; one that did not import is never asked
EnumAnswers(backend, imported) ==
    IF imported
    THEN {EnumFailed} \cup {EnumNames(backend, k) : k \in 0..MaxGpus}
    ELSE {EnumFailed}

\* the machines: which GPU libraries import, and what they enumerate
Machines ==
    UNION {{[nvml |-> n, gputil |-> g, nv |-> a, gu |-> b] :
                a \in EnumAnswers("nvml", n), b \in EnumAnswers("gputil", g)} :
            n \in BOOLEAN, g \in BOOLEAN}

NoGpuMachine == [nvml |-> FALSE, gputil |-> FALSE, nv |-> EnumFailed, gu |-> EnumFailed]

\* OverlayWindow.__init__ on machine m
InitTelemetry(m) ==
    /\ NVML = m.nvml
    /\ GPUtil_available = m.gputil
    /\ enumerated = [nv |-> m.nv, gu |-> m.gu]
    /\ batt_label = BattLabel("", "", 0, "")
    /\ row_cpu = StatRow(<<"CPU">>)
    /\ row_ram = StatRow(<<"RAM">>)
    /\ row_disk = StatRow(<<"DISK">>)
    /\ row_net = StatRow(<<"NETWORK">>)
    /\ gpu_rows = detect_gpus_and_populate(m.nvml, m.gputil, m.nv, m.gu)
    /\ previous_net = NoNet
    /\ sample = NoSample
    /\ prev_before = NoNet
    /\ queried = detect_queries(m.nvml, m.gputil, m.nv)
    /\ failed_before = FALSE
    /\ time_label = <<"--", "--", "--">>
    /\ probe = [row |-> StatRow(<<"ROW">>), percent |-> PyNone, applied |-> FALSE]

Init == InitView /\ \E m \in Machines : InitTelemetry(m)

InitNoGpu == InitView /\ InitTelemetry(NoGpuMachine)

(***************************************************************************)
(* Timers and specifications                                               *)
(***************************************************************************)
paneVars == <<tab_info, tab_about, btn_settings, home_btn, live_area, info_area,
              about_area, settings_area, created, theme, size_preset, opacity, rb_light>>

\* update_timer fires: one telemetry tick with answers drawn from S
Tick(S) ==
    /\ \E s \in S : update_stats(s)
    /\ last' = Record("update_stats")
    /\ UNCHANGED <<paneVars, probe, time_label>>

NetTick == Tick(NetSamples)

NextNet == NetTick

\* the values handed to update_value: halves from below 0 to above 100, None,
\* text with and without an integer in it, nan and infinity
PercentInputs ==
    {Num(n, 2) : n \in (-2 * MaxOver)..(200 + 2 * MaxOver)}
    \cup {PyNone, PyText, PyNaN, PyInf}
    \cup {PyDigits(i) : i \in {-1, 42, 102}}

\* row.update_value(percent) on a row of its own
UpdateRow ==
    /\ \E percent \in PercentInputs :
          probe' = [row |-> update_value(probe.row, percent), percent |-> percent,
                    applied |-> TRUE]
    /\ UNCHANGED <<viewVars, telVars, time_label>>

NextRow == UpdateRow

\* update_value on every kind of input
SpecRow == InitNoGpu /\ [][NextRow]_vars

\* the panes, on a machine without GPU libraries
SpecView == InitNoGpu /\ [][NextView]_vars

\* the telemetry tick with the network answers varied
SpecNet == InitNoGpu /\ [][NextNet]_vars

(***************************************************************************)
(* The telemetry tick with the GPU answers varied                          *)
(***************************************************************************)
\* nvmlDeviceGetUtilizationRates(handle).gpu of device i, or the call raising
NvmlUtil(i) == [ok |-> TRUE, v |-> PyInt(40 + i)]
NvmlDeviceFailed == [ok |-> FALSE, v |-> PyInt(0)]

\* gpus[i].load: a quarter per position, or nan where nvidia-smi gave no number
GputilLoad(i) == Num(i, 4)

\* the devices 1..k of a tick, device f failing (f = 0: none fails)
NvmlDevices(k, f) == [i \in 1..k |-> IF i = f THEN NvmlDeviceFailed ELSE NvmlUtil(i)]
GputilDevices(k, f) == [i \in 1..k |-> IF i = f THEN PyNaN ELSE GputilLoad(i)]

\* pynvml during a tick: nvmlDeviceGetCount raises, or k devices of which at most
\* one fails
NvmlAnswers ==
    {NvmlSilent}
    \cup UNION {{[count_ok |-> TRUE, util |-> NvmlDevices(k, f)] : f \in 0..k} :
                k \in 0..MaxGpus}

\* GPUtil.getGPUs() during a tick: raises, or k devices of which at most one has
\* no load
GputilAnswers ==
    {GputilSilent}
    \cup UNION {{[ok |-> TRUE, load |-> GputilDevices(k, f)] : f \in 0..k} :
                k \in 0..MaxGpus}

GpuSamples ==
    {[batt |-> NoBatteryAnswer, cpu |-> Reading(Num(578, 10)), ram |-> Reading(PyInt(102)),
      disk |-> Reading(PyInt(7)), nv |-> a, gu |-> b, net |-> NetFailed, now |-> PyInt(0)] :
        a \in NvmlAnswers, b \in GputilAnswers}

GpuTick == Tick(GpuSamples)

NextGpu == GpuTick

(***************************************************************************)
(* The telemetry tick with the battery answers varied                      *)
(***************************************************************************)
BatteryRaised == [t |-> "raise", percent |-> PyInt(0), plugged |-> "none"]
BatteryReading(p, g) == [t |-> "reading", percent |-> p, plugged |-> g]

\* batt.percent: halves from below 0 to above 100, and nan
BattPercents == {Num(n, 2) : n \in (-2 * MaxOver)..(200 + 2 * MaxOver)} \cup {PyNaN}

\* batt.power_plugged: True, False or None
Plugged == {"true", "false", "none"}

BattAnswers ==
    {BatteryRaised, NoBatteryAnswer}
    \cup {BatteryReading(p, g) : p \in BattPercents, g \in Plugged}

BattSamples ==
    {[batt |-> b, cpu |-> Reading(Num(578, 10)), ram |-> Reading(PyInt(102)),
      disk |-> QueryFailed, nv |-> NvmlSilent, gu |-> GputilSilent, net |-> NetFailed,
      now |-> PyInt(0)] : b \in BattAnswers}

BattTick == Tick(BattSamples)

NextBatt == BattTick

SpecBatt == InitNoGpu /\ [][NextBatt]_vars

(***************************************************************************)
(* The clock, and the running program with a few network answers           *)
(***************************************************************************)
\* time.strftime("%H:%M:%S") of second t of the day
strftime(t) == <<t \div 3600, (t \div 60) % 60, t % 60>>

\* the seconds the clock is read in
Seconds == 0..(MaxTime \div 2)

\* clock_timer fires: update_clock()
ClockTick ==
    /\ \E t \in Seconds : time_label' = strftime(t)
    /\ last' = Record("update_clock")
    /\ UNCHANGED <<paneVars, telVars, probe>>

\* the network fails, is idle on every interface, or one interface is ahead
FrameSamples ==
    {[batt |-> NoBatteryAnswer, cpu |-> Reading(Num(578, 10)), ram |-> Reading(PyInt(102)),
      disk |-> QueryFailed, nv |-> NvmlSilent, gu |-> GputilSilent, net |-> n,
      now |-> PyInt(1)] :
        n \in {NetFailed} \cup
               {[ok |-> TRUE, pernic |-> <<Counters("eth0", <<a, 0>>), Counters("wlan0", b)>>] :
                    a \in 0..1, b \in WlanPairs}}

FrameTick == Tick(FrameSamples)

NextFrame == NextView \/ FrameTick \/ ClockTick

\* user input, the telemetry timer and the clock timer together
SpecFrame == InitNoGpu /\ [][NextFrame]_vars

(***************************************************************************)
(* The telemetry tick with every query failing or not                      *)
(***************************************************************************)
\* a machine where both GPU libraries import and list MaxGpus devices
TickMachine ==
    [nvml |-> TRUE, gputil |-> TRUE, nv |-> EnumNames("nvml", MaxGpus),
     gu |-> EnumNames("gputil", MaxGpus)]

\* every query of the tick either fails or gives one answer; the network gives
\* one of two, so that the rate is not always 0
TickSamples ==
    {[batt |-> b, cpu |-> c, ram |-> r, disk |-> d, nv |-> a, gu |-> g, net |-> n,
      now |-> PyInt(0)] :
        b \in {BatteryRaised, NoBatteryAnswer, BatteryReading(Num(75, 2), "true")},
        c \in {QueryFailed, Reading(Num(578, 10))},
        r \in {QueryFailed, Reading(PyInt(64))},
        d \in {QueryFailed, Reading(PyInt(7))},
        a \in {NvmlSilent, [count_ok |-> TRUE, util |-> NvmlDevices(MaxGpus, 0)]},
        g \in {GputilSilent, [ok |-> TRUE, load |-> GputilDevices(MaxGpus, 0)]},
        n \in {NetFailed} \cup
               {[ok |-> TRUE, pernic |-> <<Counters("eth0", <<u, 0>>)>>] :
                    u \in {1, BurstUnits}}}

AnyTick == Tick(TickSamples)

NextTick == AnyTick

InitTick == InitView /\ InitTelemetry(TickMachine)

SpecTick == InitTick /\ [][NextTick]_vars

\* the telemetry tick with the GPU answers varied, on every machine
SpecGpu == Init /\ [][NextGpu]_vars

\* the running program: user input, the telemetry timer and the clock timer
Next == NextView \/ NetTick \/ ClockTick

Spec == Init /\ [][Next]_vars

(***************************************************************************)
(* Properties of the pane switching (checked under SpecView)               *)
(***************************************************************************)
\* the pane a top-bar button requests
Requested(op) ==
    CASE op = "tab_info" -> "Info"
      [] op = "tab_about" -> "About"
      [] op = "btn_settings" -> "Settings"
      [] OTHER -> "none"

\* C1: after any sequence of Info, About, Settings and Home clicks exactly one of
\* the panes Live, Info, About, Settings is visible, and at start it is Live.
C1_ExactlyOnePane ==
    /\ Cardinality(VisiblePanes) = 1
    /\ last.op = "init" => VisiblePanes = {"Live"}

C1_Witness ==
    /\ last.op = "tab_about"
    /\ last.before = {"Settings"}
    /\ VisiblePanes = {"About"}

\* C2: clicking the tab of the pane P in {Info, About} that is shown makes Live
\* the shown pane and hides P.
C2_TabTogglesBack ==
    \A op \in {"tab_info", "tab_about"} :
        (last.op = op /\ last.before = {Requested(op)}) => VisiblePanes = {"Live"}

C2_Witness ==
    /\ last.op = "tab_info"
    /\ last.before = {"Info"}
    /\ VisiblePanes = {"Live"}

\* C3 as claimed: clicking Settings while the Settings pane is shown returns to Live.
C3_SettingsTogglesBack ==
    (last.op = "btn_settings" /\ last.before = {"Settings"}) => VisiblePanes = {"Live"}

\* C3 amended: clicking Settings while the Settings pane is shown leaves the
\* Settings pane shown; open_settings never returns to Live.
C3_SettingsStays ==
    (last.op = "btn_settings" /\ last.before = {"Settings"}) => VisiblePanes = {"Settings"}

C3_Witness ==
    /\ last.op = "btn_settings"
    /\ last.before = {"Settings"}
    /\ VisiblePanes = {"Settings"}

\* C4: requesting a non-Live pane Q while another pane P is shown makes Q the
\* shown pane and hides P.
C4_RequestActivates ==
    \A op \in {"tab_info", "tab_about", "btn_settings"} :
        (last.op = op /\ Requested(op) \notin last.before) => VisiblePanes = {Requested(op)}

C4_Witness ==
    /\ last.op = "tab_info"
    /\ last.before = {"Settings"}
    /\ VisiblePanes = {"Info"}

\* C5: after the Home button, whatever pane was shown and whether or not the
\* Settings pane exists, Live is the only shown pane and both tabs are unchecked.
C5_HomeShowsLive ==
    last.op = "home_btn" => (VisiblePanes = {"Live"} /\ ~tab_info /\ ~tab_about)

C5_Witness ==
    /\ last.op = "home_btn"
    /\ last.before = {"Settings"}
    /\ settings_area.exists
    /\ VisiblePanes = {"Live"}

\* C6: the Settings pane does not exist at start, only a Settings click creates
\* it, every Settings click leaves it existing, and once it exists every step
\* keeps it the same object.
C6_SettingsLazyAndPersistent ==
    /\ ~settings_area.exists
    /\ [][/\ (~settings_area.exists /\ last'.op # "btn_settings") => ~settings_area'.exists
          /\ last'.op = "btn_settings" => settings_area'.exists
          /\ settings_area.exists =>
                (settings_area'.exists /\ settings_area'.id = settings_area.id)]_vars

C6_Witness ==
    /\ last.op = "btn_settings"
    /\ last.before = {"Info"}
    /\ theme = "light"
    /\ settings_area.exists
    /\ settings_area.id = 1
    /\ created = 1

(***************************************************************************)
(* Properties of the network rate (checked under SpecNet)                  *)
(***************************************************************************)
TickRan == last.op = "update_stats"

Total(c) == c.bytes_sent + c.bytes_recv

\* the interfaces of the last tick with the largest total, when that is positive
Busiest ==
    IF ~sample.net.ok THEN {}
    ELSE {i \in 1..Len(sample.net.pernic) :
            /\ Total(sample.net.pernic[i]) > 0
            /\ \A j \in 1..Len(sample.net.pernic) :
                  Total(sample.net.pernic[j]) <= Total(sample.net.pernic[i])}

\* the last tick selected an interface: the first of the busiest in dictionary order
Selected == TickRan /\ Busiest # {}
SelectedNic == sample.net.pernic[CHOOSE i \in Busiest : \A j \in Busiest : i <= j]

\* the last tick selected the interface the tick before had stored
SameInterface == Selected /\ prev_before.set /\ prev_before.name = SelectedNic.nic

\* the byte increases S and R and the elapsed time TN/TD s between the two samples
S == SelectedNic.bytes_sent - prev_before.sent
R == SelectedNic.bytes_recv - prev_before.recv
TN == sample.now.n * prev_before.time.d - prev_before.time.n * sample.now.d
TD == sample.now.d * prev_before.time.d

\* 1024 * 102400 / 100: the bytes per second of one percent
BytesPerPercent == 1024 * 1024

\* the row shows p in its bar and in its text
Shows(row, p) == row.bar = p /\ row.value_label = <<p, "%">>

\* n/d truncated toward zero, for d > 0, and a displayed percent for a quotient
Trunc(n, d) == IF n >= 0 THEN n \div d ELSE -((-n) \div d)
Capped(n, d) == Max(0, Min(100, Trunc(n, d)))

\* C7: a tick that selects an interface other than the stored one, or with none
\* stored, shows 0 for the network whatever the byte counters are.
C7_InterfaceChangeShowsZero ==
    (Selected /\ ~SameInterface) => Shows(row_net, 0)

C7_Witness ==
    /\ Selected
    /\ prev_before.set
    /\ prev_before.name = "eth0"
    /\ SelectedNic.nic = "wlan0"
    /\ S + R > 0
    /\ Shows(row_net, 0)

C9_ElapsedAtLeastOne ==
    (SameInterface /\ TN < TD) => Shows(row_net, Capped(S + R, BytesPerPercent))

\* C9 amended: two samples of one interface less than 1 s apart show the rate
\* computed with an elapsed time of 1.0 when the real one is 0 or negative, and
\* with the real one when it is positive.
C9_ElapsedPositive ==
    (SameInterface /\ TN < TD) =>
        IF TN <= 0
        THEN Shows(row_net, Capped(S + R, BytesPerPercent))
        ELSE Shows(row_net, Capped((S + R) * TD, TN * BytesPerPercent))

C9_Witness ==
    /\ SameInterface
    /\ TN <= 0
    /\ S + R >= BytesPerPercent
    /\ row_net.bar > 0
    /\ Shows(row_net, Capped(S + R, BytesPerPercent))

(***************************************************************************)
(* Properties of StatRow.update_value (checked under SpecRow)              *)
(***************************************************************************)
\* C10: whatever update_value is given, bar and text show the same integer p in
\* 0..100; None and text without a number give 0, a number above 100 gives 100,
\* a negative one 0, and a number in range its integer part.
C10_ClampedDisplay ==
    probe.applied =>
        \E p \in 0..100 :
            /\ Shows(probe.row, p)
            /\ probe.percent.t \in {"none", "text"} => p = 0
            /\ probe.percent.t = "num" =>
                  \/ probe.percent.n >= 100 * probe.percent.d /\ p = 100
                  \/ probe.percent.n <= 0 /\ p = 0
                  \/ /\ p * probe.percent.d <= probe.percent.n
                     /\ probe.percent.n < (p + 1) * probe.percent.d

C10_Witness ==
    /\ probe.applied
    /\ probe.percent = PyInt(102)
    /\ Shows(probe.row, 100)

(***************************************************************************)
(* Properties of the battery label (checked under SpecBatt)                *)
(***************************************************************************)
\* C11: after every tick the battery label is "No battery" (not a reading of 0%)
\* when the OS reports no battery, and otherwise the percent with Charging when
\* plugged and On Battery when not plugged.
C11_BatteryOutput ==
    TickRan =>
        /\ sample.batt.t = "none" =>
              (batt_label.text = "No battery" /\ batt_label.status = "")
        /\ (sample.batt.t = "reading" /\ sample.batt.percent.t = "num") =>
              /\ batt_label.text = "reading"
              /\ batt_label.status =
                    (IF sample.batt.plugged = "true" THEN "Charging" ELSE "On Battery")
              /\ batt_label.symbol =
                    (IF sample.batt.plugged = "true" THEN "plug" ELSE "battery")
              /\ (sample.batt.percent.n >= 0
                  /\ sample.batt.percent.n <= 100 * sample.batt.percent.d) =>
                    batt_label.percent = Trunc(sample.batt.percent.n, sample.batt.percent.d)

C11_Witness ==
    /\ TickRan
    /\ sample.batt = BatteryReading(Num(75, 2), "none")
    /\ batt_label = BattLabel("reading", "battery", 37, "On Battery")

\* C12 as claimed: the battery percent shown after a tick is an integer in 0..100
\* whatever the sensor returns.
C12_BatteryPercentClamped ==
    (TickRan /\ batt_label.text = "reading") => batt_label.percent \in 0..100

(***************************************************************************)
(* Properties of the GPU rows (checked under SpecGpu)                      *)
(***************************************************************************)
RowNames == [i \in 1..Len(gpu_rows) |-> gpu_rows[i].name]

\* what each backend listed at start-up: nothing when it is not available or failed
NativeNames == IF NVML /\ enumerated.nv.ok THEN enumerated.nv.names ELSE <<>>
FallbackNames == IF GPUtil_available /\ enumerated.gu.ok THEN enumerated.gu.names ELSE <<>>

\* the percent GPUtil's load of device i of the last tick stands for
GputilPercent(i) == Trunc(sample.gu.load[i].n * 100, sample.gu.load[i].d)

\* C13: when the native backend yields no device and the fallback lists N > 0,
\* there are exactly N rows, in fallback order, with the fallback's names; when
\* the native backend lists M > 0 devices there are exactly M rows with the
\* native names and the fallback is not queried.
C13_EnumerationPriority ==
    /\ (NativeNames = <<>> /\ FallbackNames # <<>>) =>
          /\ RowNames = FallbackNames
          /\ "gputil" \in queried
          /\ \A i \in 1..Len(gpu_rows) :
                gpu_rows[i].row.label = <<"GPU", i - 1, FallbackNames[i]>>
    /\ NativeNames # <<>> =>
          /\ RowNames = NativeNames
          /\ "gputil" \notin queried
          /\ \A i \in 1..Len(gpu_rows) :
                gpu_rows[i].row.label = <<"GPU", i - 1, NativeNames[i]>>

C13_Witness ==
    /\ NVML
    /\ ~enumerated.nv.ok
    /\ Len(FallbackNames) = 2
    /\ RowNames = <<(<<"gputil", 1>>), (<<"gputil", 2>>)>>

\* C14 as claimed: when no backend lists a device there is exactly one row named
\* "GPU", and it shows 0% after every tick whatever the backends answer.
C14_PlaceholderAlwaysZero ==
    (NativeNames = <<>> /\ FallbackNames = <<>>) =>
        /\ RowNames = << <<"GPU">> >>
        /\ TickRan => Shows(gpu_rows[1].row, 0)

\* C15 as claimed: in a tick, a device whose query fails shows 0 and every other
\* device whose query succeeds shows its own utilization.
C15_FailureStaysLocal ==
    TickRan =>
        /\ (NVML /\ sample.nv.count_ok) =>
              \A i \in 1..Min(Len(gpu_rows), Len(sample.nv.util)) :
                  IF sample.nv.util[i].ok
                  THEN Shows(gpu_rows[i].row, sample.nv.util[i].v.n)
                  ELSE Shows(gpu_rows[i].row, 0)
        /\ (~NVML /\ GPUtil_available /\ sample.gu.ok) =>
              \A i \in 1..Min(Len(gpu_rows), Len(sample.gu.load)) :
                  IF sample.gu.load[i].t = "num"
                  THEN Shows(gpu_rows[i].row, GputilPercent(i))
                  ELSE Shows(gpu_rows[i].row, 0)

\* the last tick took its values from pynvml, or from GPUtil, without a failure
NativeSampled ==
    /\ TickRan /\ NVML /\ sample.nv.count_ok
    /\ \A i \in 1..Min(Len(gpu_rows), Len(sample.nv.util)) : sample.nv.util[i].ok

FallbackSampled ==
    /\ TickRan /\ ~NativeSampled /\ GPUtil_available /\ sample.gu.ok
    /\ \A i \in 1..Min(Len(gpu_rows), Len(sample.gu.load)) : sample.gu.load[i].t = "num"

\* C16: the rows keep their number, order and names in every step; after a tick
\* in which the sampling backend reports k devices every row beyond the k-th
\* shows 0, and rows are neither added nor removed when k exceeds their number.
C16_RowsFixedAndAligned ==
    /\ [](/\ NativeSampled =>
               \A i \in (Len(sample.nv.util) + 1)..Len(gpu_rows) : Shows(gpu_rows[i].row, 0)
          /\ FallbackSampled =>
               \A i \in (Len(sample.gu.load) + 1)..Len(gpu_rows) : Shows(gpu_rows[i].row, 0))
    /\ [][RowNames' = RowNames]_vars

C16_Witness ==
    /\ NativeSampled
    /\ Len(gpu_rows) = 2
    /\ Len(sample.nv.util) = 1
    /\ Shows(gpu_rows[1].row, 41)
    /\ Shows(gpu_rows[2].row, 0)

\* C18 as claimed: when the rows come from the fallback backend because the
\* initialized native backend listed nothing, each tick sets row i to the
\* fallback's utilization of device i.
C18_SampledFromEnumeratingBackend ==
    (TickRan /\ NVML /\ NativeNames = <<>> /\ FallbackNames # <<>> /\ sample.gu.ok
     /\ \A i \in 1..Len(sample.gu.load) : sample.gu.load[i].t = "num") =>
        \A i \in 1..Min(Len(gpu_rows), Len(sample.gu.load)) :
            Shows(gpu_rows[i].row, GputilPercent(i))

(***************************************************************************)
(* Properties of the whole tick (checked under SpecTick)                   *)
(***************************************************************************)
\* the percent a psutil reading stands for
ReadingPercent(r) == Capped(r.v.n, r.v.d)

\* C17: whatever queries fail in a tick, the tick sets every output: a failing
\* query shows its default (0, or "Battery: --"), the others show what they
\* returned, and a failure of the tick before changes nothing of that.
C17_FailuresNotFatal ==
    TickRan =>
        /\ sample.batt.t = "raise" => batt_label = BattLabel("Battery: --", "", 0, "")
        /\ sample.batt.t = "none" => batt_label = BattLabel("No battery", "", 0, "")
        /\ sample.batt.t = "reading" =>
              batt_label = BattLabel("reading", "plug",
                                     Trunc(sample.batt.percent.n, sample.batt.percent.d),
                                     "Charging")
        /\ Shows(row_cpu, IF sample.cpu.ok THEN ReadingPercent(sample.cpu) ELSE 0)
        /\ Shows(row_ram, IF sample.ram.ok THEN ReadingPercent(sample.ram) ELSE 0)
        /\ Shows(row_disk, IF sample.disk.ok THEN ReadingPercent(sample.disk) ELSE 0)
        /\ \A i \in 1..Len(gpu_rows) :
              Shows(gpu_rows[i].row,
                    IF NVML /\ sample.nv.count_ok THEN sample.nv.util[i].v.n
                    ELSE IF GPUtil_available /\ sample.gu.ok THEN GputilPercent(i)
                    ELSE 0)
        /\ Shows(row_net, IF sample.net.ok /\ SameInterface
                          THEN Capped(S + R, BytesPerPercent)
                          ELSE 0)

\* a tick in which every query succeeds, after one in which a query failed
C17_Witness ==
    /\ TickRan
    /\ failed_before
    /\ ~any_failed(sample)
    /\ NVML /\ sample.nv.count_ok
    /\ batt_label.status = "Charging"
    /\ Shows(row_cpu, 57)
    /\ Shows(row_ram, 64)
    /\ Shows(row_disk, 7)
    /\ Shows(gpu_rows[1].row, 41)
    /\ Shows(row_net, 100)

(***************************************************************************)
(* Properties of the top bar (checked under SpecView)                      *)
(***************************************************************************)
\* C19: the Home button is visible exactly when the shown pane is not Live, and
\* the Info (About) tab is checked exactly when the Info (About) pane is shown.
C19_IndicatorsFollowPane ==
    /\ home_btn <=> VisiblePanes # {"Live"}
    /\ tab_info <=> VisiblePanes = {"Info"}
    /\ tab_about <=> VisiblePanes = {"About"}

C19_Witness ==
    /\ last.op = "tab_about"
    /\ last.before = {"About"}
    /\ ~home_btn /\ ~tab_info /\ ~tab_about
    /\ settings_area.exists
    /\ VisiblePanes = {"Live"}

(***************************************************************************)
(* Properties of previous_net (checked under SpecFrame)                    *)
(***************************************************************************)
\* C20: only the telemetry tick changes previous_net: a tick that selects an
\* interface stores its name, its two counters and the tick's time; a tick
\* that selects none or whose query fails, the clock and every user action
\* leave it as it was.
C20_PreviousNetFrame ==
    /\ [](TickRan =>
            IF Selected
            THEN previous_net = [set |-> TRUE, name |-> SelectedNic.nic,
                                 sent |-> SelectedNic.bytes_sent,
                                 recv |-> SelectedNic.bytes_recv, time |-> sample.now]
            ELSE previous_net = prev_before)
    /\ [][last'.op # "update_stats" => previous_net' = previous_net]_vars

\* a tick that selects no interface after one that stored wlan0, with the
\* settings pane opened in between
C20_Witness ==
    /\ TickRan
    /\ sample.net.ok
    /\ ~Selected
    /\ settings_area.exists
    /\ prev_before.set
    /\ previous_net.name = "wlan0"
    /\ previous_net.recv = ByteUnit

====
